---- MODULE Spec2Model ----
(***************************************************************************)
(* A model of paperfetcher: the search / fetch / parse-and-filter pipeline *)
(* of core.py and the command-line entry point of cli.py.                  *)
(*                                                                         *)
(* A Python str is a sequence of one-character strings, so that lower(),   *)
(* strip(), split() and the `in` substring test are computed character by  *)
(* character.  An Optional value is a sequence of length 0 (None / node    *)
(* absent) or 1.                                                           *)
(***************************************************************************)
EXTENDS Integers, Sequences, FiniteSets, TLC

(***************************************************************************)
(* Bounds of the model.                                                    *)
(***************************************************************************)
MaxPmids == 450
MaxAffLen == 4

(***************************************************************************)
(* Python str helpers.                                                     *)
(***************************************************************************)
UpperLetters ==
    << "A","B","C","D","E","F","G","H","I","J","K","L","M",
       "N","O","P","Q","R","S","T","U","V","W","X","Y","Z" >>

LowerLetters ==
    << "a","b","c","d","e","f","g","h","i","j","k","l","m",
       "n","o","p","q","r","s","t","u","v","w","x","y","z" >>

LowerChar(c) ==
    IF \E k \in 1..26 : UpperLetters[k] = c
    THEN LowerLetters[CHOOSE k \in 1..26 : UpperLetters[k] = c]
    ELSE c

\* str.lower()
lower(s) == [k \in 1..Len(s) |-> LowerChar(s[k])]

\* needle in hay
Contains(hay, needle) ==
    \E k \in 0..(Len(hay) - Len(needle)) :
        SubSeq(hay, k + 1, k + Len(needle)) = needle

IsSpace(c) == c \in {" ", "\t", "\n"}

\* str.strip(): drop leading and trailing whitespace
strip(s) ==
    LET keep == {k \in 1..Len(s) : ~IsSpace(s[k])}
    IN  IF keep = {} THEN << >>
        ELSE SubSeq(s, CHOOSE k \in keep : \A j \in keep : k <= j,
                       CHOOSE k \in keep : \A j \in keep : k >= j)

(***************************************************************************)
(* core.py: the keyword heuristic.                                         *)
(***************************************************************************)
COMPANY_KEYWORDS ==
    << <<"i","n","c">>, <<"l","t","d">>, <<"l","l","c">>, <<"c","o","r","p">>,
       <<"c","o","r","p","o","r","a","t","i","o","n">>,
       <<"p","h","a","r","m","a","c","e","u","t","i","c","a","l","s">>,
       <<"t","h","e","r","a","p","e","u","t","i","c","s">>,
       <<"b","i","o","t","e","c","h">>,
       <<"b","i","o","s","c","i","e","n","c","e","s">>,
       <<"d","i","a","g","n","o","s","t","i","c","s">>,
       <<"l","a","b","s">>,
       <<"l","a","b","o","r","a","t","o","r","i","e","s">>,
       <<"g","m","b","h">>, <<"a","g">>, <<"s",".","a",".">> >>

\* A plausible slip: the affiliation is matched without being lowercased.
IsCompanyCaseSensitive(affiliation) ==
    IF affiliation = << >> THEN FALSE
    ELSE \E k \in 1..Len(COMPANY_KEYWORDS) :
             Contains(affiliation, COMPANY_KEYWORDS[k])

_is_company_affiliation(affiliation) ==
    IF affiliation = << >> THEN FALSE
    ELSE LET affiliation_lower == lower(affiliation)
         IN  \E k \in 1..Len(COMPANY_KEYWORDS) :
                 Contains(affiliation_lower, COMPANY_KEYWORDS[k])

(***************************************************************************)
(* More str helpers used by the field extraction.                          *)
(***************************************************************************)
NA == <<"N", "/", "A">>
NoTitle == <<"N", "o", " ", "T", "i", "t", "l", "e">>
Dash == <<"-">>
Corresponding == <<"C","o","r","r","e","s","p","o","n","d","i","n","g">>
At == <<"@">>
StripChars == {".", ";", ","}

\* str.replace(old, new) for one-character old and new
replace(s, old, new) == [k \in 1..Len(s) |-> IF s[k] = old THEN new ELSE s[k]]

\* str.split(): the maximal runs of non-whitespace characters, in order
RECURSIVE split(_)
split(s) ==
    LET starts == {k \in 1..Len(s) : ~IsSpace(s[k])}
    IN  IF starts = {} THEN << >>
        ELSE LET b == CHOOSE k \in starts : \A j \in starts : k <= j
                 stops == {k \in b..Len(s) : IsSpace(s[k])}
                 e == IF stops = {} THEN Len(s) + 1
                      ELSE CHOOSE k \in stops : \A j \in stops : k <= j
             IN  <<SubSeq(s, b, e - 1)>> \o split(SubSeq(s, e, Len(s)))

\* str.rstrip(chars): a plausible slip for strip(chars)
rstrip_chars(s, chars) ==
    LET keep == {k \in 1..Len(s) : s[k] \notin chars}
    IN  IF keep = {} THEN << >>
        ELSE SubSeq(s, 1, CHOOSE k \in keep : \A j \in keep : k >= j)

\* str.strip(chars): drop the characters of chars from both ends
strip_chars(s, chars) ==
    LET keep == {k \in 1..Len(s) : s[k] \notin chars}
    IN  IF keep = {} THEN << >>
        ELSE SubSeq(s, CHOOSE k \in keep : \A j \in keep : k <= j,
                       CHOOSE k \in keep : \A j \in keep : k >= j)

\* reversed(seq)
reversed(q) == [k \in 1..Len(q) |-> q[Len(q) + 1 - k]]

\* Optional values and ElementTree's findtext(path, default)
None == << >>
Some(v) == <<v>>
findtext(node, default) == IF node = None THEN default ELSE node[1]

(***************************************************************************)
(* core.py: per-article field extraction.                                  *)
(*                                                                         *)
(* A PubDate node is [Year, Month, Day], each None or Some(text).  An      *)
(* Author node is [fore, last, affs, corr]: the first ForeName / LastName  *)
(* of its subtree (None or Some(text)), the joined text of each            *)
(* Affiliation node of its subtree in document order, and the              *)
(* CorrespondingAuthor attribute (None or Some(value)).                    *)
(***************************************************************************)

\* A plausible slip: the components are filled in even without a date node.
DateAlwaysThreeSlots(dates) ==
    IF dates # << >>
    THEN findtext(dates[1].Year, NA) \o Dash \o findtext(dates[1].Month, NA)
             \o Dash \o findtext(dates[1].Day, NA)
    ELSE NA \o Dash \o NA \o Dash \o NA

\* dates: the PubDate nodes of the article subtree in document order
_get_publication_date(dates) ==
    IF dates # << >>
    THEN LET date_node == dates[1]
             year == findtext(date_node.Year, NA)
             month == findtext(date_node.Month, NA)
             day == findtext(date_node.Day, NA)
         IN  year \o Dash \o month \o Dash \o day
    ELSE NA

\* "".join(node.itertext()).strip() of the first Affiliation node, else ""
AffiliationText(author) ==
    IF author.affs # << >> THEN strip(author.affs[1]) ELSE << >>

\* the inner loop: the first word, scanning in reverse, that contains "@"
RECURSIVE FirstEmailWord(_)
FirstEmailWord(words) ==
    IF words = << >> THEN None
    ELSE IF Contains(words[1], At) THEN Some(strip_chars(words[1], StripChars))
    ELSE FirstEmailWord(Tail(words))

EmailOf(affiliation_text) ==
    LET words == split(replace(replace(affiliation_text, "(", " "), ")", " "))
    IN  FirstEmailWord(reversed(words))

RECURSIVE _get_corresponding_author_email(_)
_get_corresponding_author_email(authors) ==
    IF authors = << >> THEN None
    ELSE LET author_node == authors[1]
             is_corr_attr == findtext(author_node.corr, <<"N">>) = <<"Y">>
             affiliation_text == AffiliationText(author_node)
             is_corr_text == affiliation_text # << >>
                             /\ Contains(affiliation_text, Corresponding)
             found == IF (is_corr_attr \/ is_corr_text)
                         /\ affiliation_text # << >>
                         /\ Contains(affiliation_text, At)
                      THEN EmailOf(affiliation_text)
                      ELSE None
         IN  IF found # None THEN found
             ELSE _get_corresponding_author_email(Tail(authors))

\* f"{fore_name} {last_name}".strip()
AuthorName(author) ==
    strip(findtext(author.fore, << >>) \o <<" ">> \o findtext(author.last, << >>))

\* A plausible slip: the name is appended without the emptiness test.
AppendNameUnchecked(names, author) == Append(names, AuthorName(author))

AppendName(names, author) ==
    IF AuthorName(author) # << >> THEN Append(names, AuthorName(author))
    ELSE names

\* A plausible slip: the affiliation is appended without the membership test.
AppendAffiliationDup(affiliations, affiliation_text) ==
    Append(affiliations, affiliation_text)

AppendAffiliation(affiliations, affiliation_text) ==
    IF \E k \in 1..Len(affiliations) : affiliations[k] = affiliation_text
    THEN affiliations
    ELSE Append(affiliations, affiliation_text)

\* the author loop: [names, affs] after the authors have been visited in order
RECURSIVE AuthorLoop(_, _)
AuthorLoop(authors, acc) ==
    IF authors = << >> THEN acc
    ELSE LET author_node == authors[1]
             affiliation_text == AffiliationText(author_node)
             next == IF author_node.affs # << >>
                        /\ _is_company_affiliation(affiliation_text)
                     THEN [names |-> AppendName(acc.names, author_node),
                           affs |-> AppendAffiliation(acc.affs, affiliation_text)]
                     ELSE acc
         IN  AuthorLoop(Tail(authors), next)

(***************************************************************************)
(* core.py: parse_and_filter_papers.                                       *)
(*                                                                         *)
(* A document text is a sequence of lexical items [kind, art]:             *)
(*   PROLOG   an <?xml ...?> declaration      DOCTYPE  a <!DOCTYPE ...>    *)
(*   WS       whitespace                      TEXT     character data      *)
(*   OPEN     a start tag <PubmedArticleSet>  CLOSE    its end tag         *)
(*   ARTICLE  a complete <PubmedArticle> element, whose content is art     *)
(* An article is [pmid, title, authors, dates]: the first PMID node (None, *)
(* or Some(text)), the first ArticleTitle node (None or Some(joined        *)
(* text)), the first AuthorList node (None or Some(its Author children))   *)
(* and the PubDate nodes of the subtree.                                   *)
(***************************************************************************)
NoArticle == [pmid |-> None, title |-> None, authors |-> None, dates |-> << >>]

Item(kind) == [kind |-> kind, art |-> NoArticle]
ArticleItem(art) == [kind |-> "ARTICLE", art |-> art]

\* xml_data.strip() on a document text
StripText(text) ==
    LET keep == {k \in 1..Len(text) : text[k].kind # "WS"}
    IN  IF keep = {} THEN << >>
        ELSE SubSeq(text, CHOOSE k \in keep : \A j \in keep : k <= j,
                          CHOOSE k \in keep : \A j \in keep : k >= j)

\* the two re.sub calls followed by strip()
CleanXml(xml_data) ==
    LET NotProlog(t) == t.kind # "PROLOG"
        NotDoctype(t) == t.kind # "DOCTYPE"
    IN  StripText(SelectSeq(SelectSeq(xml_data, NotProlog), NotDoctype))

\* nesting depth after the first k items
Depth(text, k) ==
    Cardinality({j \in 1..k : text[j].kind = "OPEN"})
        - Cardinality({j \in 1..k : text[j].kind = "CLOSE"})

\* ET.fromstring(f"<root>{cleaned_xml}</root>"): a ParseError, or the tree, of
\* which the model keeps the PubmedArticle elements in document order
ET_fromstring(cleaned_xml) ==
    LET IsArticle(t) == t.kind = "ARTICLE"
        wellformed ==
            /\ \A k \in 1..Len(cleaned_xml) :
                   /\ Depth(cleaned_xml, k) >= 0
                   /\ cleaned_xml[k].kind \notin {"PROLOG", "DOCTYPE"}
            /\ Depth(cleaned_xml, Len(cleaned_xml)) = 0
        found == SelectSeq(cleaned_xml, IsArticle)
    IN  IF wellformed
        THEN [err |-> "none", articles |-> [k \in 1..Len(found) |-> found[k].art]]
        ELSE [err |-> "ParseError", articles |-> << >>]

\* one iteration of the article loop: the results with this article's added
ArticleStep(results, article) ==
    IF article.pmid = None \/ article.title = None \/ article.authors = None
    THEN results
    ELSE LET pubmed_id == IF article.pmid[1] # << >> THEN article.pmid[1] ELSE NA
             title == IF strip(article.title[1]) # << >>
                      THEN strip(article.title[1]) ELSE NoTitle
             publication_date == _get_publication_date(article.dates)
             author_list == article.authors[1]
             found == AuthorLoop(author_list, [names |-> << >>, affs |-> << >>])
         IN  IF found.names # << >>
             THEN Append(results,
                    [pubmed_id |-> pubmed_id,
                     title |-> title,
                     publication_date |-> publication_date,
                     non_academic_authors |-> found.names,
                     company_affiliations |-> found.affs,
                     corresponding_author_email |->
                         _get_corresponding_author_email(author_list)])
             ELSE results

RECURSIVE ArticleLoop(_, _)
ArticleLoop(articles, results) ==
    IF articles = << >> THEN results
    ELSE ArticleLoop(Tail(articles), ArticleStep(results, articles[1]))

\* A plausible slip: the ParseError is not caught.
ParseUncaught(xml_data) ==
    IF StripText(xml_data) = << >>
    THEN [exc |-> "none", log |-> "none", results |-> << >>]
    ELSE LET root == ET_fromstring(CleanXml(xml_data))
         IN  IF root.err # "none"
             THEN [exc |-> root.err, log |-> "none", results |-> << >>]
             ELSE [exc |-> "none", log |-> "info",
                   results |-> ArticleLoop(root.articles, << >>)]

\* the outcome of a call: the exception raised to the caller ("none" when it
\* returns), the level of its last log record, and the list returned
parse_and_filter_papers(xml_data) ==
    IF StripText(xml_data) = << >>
    THEN [exc |-> "none", log |-> "none", results |-> << >>]
    ELSE LET root == ET_fromstring(CleanXml(xml_data))
         IN  IF root.err # "none"
             THEN [exc |-> "none", log |-> "error", results |-> << >>]
             ELSE [exc |-> "none", log |-> "info",
                   results |-> ArticleLoop(root.articles, << >>)]

(***************************************************************************)
(* The state of one run.                                                   *)
(*   pc, entry      position in the run; the function the run entered      *)
(*   pmids          the identifier list given to fetch_paper_details       *)
(*   i              the loop variable of fetch_paper_details               *)
(*   all_xml_data   its accumulator                                        *)
(*   posts          the id lists POSTed so far, in request order           *)
(*   responses      what the endpoint answered to each POST: [status, body]*)
(*   search_status  how the search request ended                           *)
(*   fetch_ret      None, or Some(text returned by fetch_paper_details)    *)
(*   fetch_exc      the exception fetch_paper_details raised, or "none"    *)
(*   exc            the exception in flight, or "none"                     *)
(*   find_out       None, or Some(list returned by find_papers)            *)
(*   write_status   how _write_to_csv ended                                *)
(*   log            the (logger, level) pairs of the records emitted       *)
(*   exit_code      the process exit code, -1 while running                *)
(*   xml_data, parse_out   argument and outcome of a direct call of        *)
(*                  parse_and_filter_papers                                *)
(*   affiliation, is_company   argument and result (None until returned)   *)
(*                  of a direct call of _is_company_affiliation            *)
(***************************************************************************)
VARIABLES pc, entry, pmids, i, all_xml_data, posts, responses, search_status,
          fetch_ret, fetch_exc, exc, find_out, write_status, log, exit_code,
          xml_data, parse_out, affiliation, is_company

vars == << pc, entry, pmids, i, all_xml_data, posts, responses, search_status,
           fetch_ret, fetch_exc, exc, find_out, write_status, log, exit_code,
           xml_data, parse_out, affiliation, is_company >>

fetchVars == << pmids, i, all_xml_data, posts, responses, fetch_ret, fetch_exc >>
mainVars == << search_status, find_out, write_status, exit_code >>
pureVars == << xml_data, parse_out, affiliation, is_company >>

NoOutcome == [exc |-> "none", log |-> "none", results |-> << >>]

(***************************************************************************)
(* The remote endpoints and the file system: what they may answer.         *)
(***************************************************************************)
\* identifier lists: 1..n ascending, and n..1 descending
PmidLists ==
    {[k \in 1..n |-> k] : n \in 0..MaxPmids}
        \cup {[k \in 1..n |-> n + 1 - k] : n \in 0..MaxPmids}

CompanyAuthor ==
    [fore |-> Some(<<"J">>), last |-> Some(<<"D">>),
     affs |-> << <<"X", " ", "I", "n", "c", ".">> >>, corr |-> None]

AcademicAuthor ==
    [fore |-> Some(<<"K">>), last |-> Some(<<"E">>),
     affs |-> << <<"M", "I", "T">> >>, corr |-> None]

CompanyArticle ==
    [pmid |-> Some(<<"1">>), title |-> Some(<<"T">>),
     authors |-> Some(<<CompanyAuthor>>), dates |-> << >>]

AcademicArticle ==
    [pmid |-> Some(<<"2">>), title |-> Some(<<"U">>),
     authors |-> Some(<<AcademicAuthor>>), dates |-> << >>]

\* efetch response bodies: empty, a record set with a qualifying article, a
\* record set with none, and a body cut off before its end tag
ResponseBodies ==
    { << >>,
      << Item("PROLOG"), Item("DOCTYPE"), Item("OPEN"),
         ArticleItem(CompanyArticle), Item("CLOSE") >>,
      << Item("PROLOG"), Item("OPEN"), ArticleItem(AcademicArticle),
         Item("CLOSE") >>,
      << Item("PROLOG"), Item("OPEN"), ArticleItem(CompanyArticle) >> }

PostOutcomes ==
    [status : {"ok"}, body : ResponseBodies]
        \cup [status : {"http_error", "transport_error"}, body : {<<Item("TEXT")>>}]

Min(a, b) == IF a < b THEN a ELSE b

(***************************************************************************)
(* core.py: fetch_paper_details.                                           *)
(***************************************************************************)
MAX_UIDS_PER_REQUEST == 200

\* A plausible slip: an inclusive upper index, so that batches overlap.
BatchInclusive(list, start) ==
    SubSeq(list, start + 1, Min(start + MAX_UIDS_PER_REQUEST + 1, Len(list)))

\* pmids[i:i + MAX_UIDS_PER_REQUEST]
Batch(list, start) ==
    SubSeq(list, start + 1, Min(start + MAX_UIDS_PER_REQUEST, Len(list)))

\* A plausible slip: raise_for_status() is left out.
PostRaisesTransportOnly(status) ==
    IF status = "transport_error" THEN "Exception" ELSE "none"

\* client.post followed by response.raise_for_status(): the exception raised
PostRaises(status) ==
    CASE status = "http_error" -> "HTTPStatusError"
      [] status = "transport_error" -> "Exception"
      [] OTHER -> "none"

\* an exception leaves the entered function: into find_papers' handler, or
\* out to the caller of a function called directly
RaiseTo == IF entry = "main" THEN "except" ELSE "done"

\* lines 82-85
fetch_begin ==
    /\ pc = "fetch"
    /\ IF pmids = << >>
       THEN /\ fetch_ret' = Some(<< >>)
            /\ pc' = IF entry = "main" THEN "after_fetch" ELSE "done"
            /\ UNCHANGED << i, all_xml_data >>
       ELSE /\ all_xml_data' = << >>
            /\ i' = 0
            /\ pc' = "post"
            /\ UNCHANGED fetch_ret
    /\ UNCHANGED << entry, pmids, posts, responses, fetch_exc, exc, log >>
    /\ UNCHANGED mainVars /\ UNCHANGED pureVars

\* one iteration of the loop of lines 87-104
fetch_post ==
    /\ pc = "post"
    /\ i < Len(pmids)
    /\ \E outcome \in PostOutcomes :
          /\ posts' = Append(posts, Batch(pmids, i))
          /\ responses' = Append(responses, outcome)
          /\ IF PostRaises(outcome.status) = "none"
             THEN /\ all_xml_data' = all_xml_data \o outcome.body
                  /\ i' = i + MAX_UIDS_PER_REQUEST
                  /\ UNCHANGED << pc, fetch_exc, exc, log >>
             ELSE /\ fetch_exc' = PostRaises(outcome.status)
                  /\ exc' = PostRaises(outcome.status)
                  /\ log' = IF PostRaises(outcome.status) = "HTTPStatusError"
                            THEN log \cup {<<"fetch", "error">>} ELSE log
                  /\ pc' = RaiseTo
                  /\ UNCHANGED << all_xml_data, i >>
    /\ UNCHANGED << entry, pmids, fetch_ret >>
    /\ UNCHANGED mainVars /\ UNCHANGED pureVars

\* line 105, reached when the loop is exhausted
fetch_return ==
    /\ pc = "post"
    /\ i >= Len(pmids)
    /\ fetch_ret' = Some(all_xml_data)
    /\ pc' = IF entry = "main" THEN "after_fetch" ELSE "done"
    /\ UNCHANGED << entry, pmids, i, all_xml_data, posts, responses, fetch_exc,
                    exc, log >>
    /\ UNCHANGED mainVars /\ UNCHANGED pureVars

(***************************************************************************)
(* core.py: search_pubmed and find_papers; cli.py: main.                   *)
(***************************************************************************)
SearchStatuses == {"ok", "no_idlist", "http_error", "error"}

\* search_pubmed: the exception it raises for a status, "none" when it returns
SearchRaises(status) ==
    CASE status = "http_error" -> "HTTPStatusError"
      [] status = "error" -> "Exception"
      [] OTHER -> "none"

\* A plausible slip: the handler is narrowed and lets HTTP errors through.
FindPapersCatchesOther(e) == e # "HTTPStatusError"

\* line 248, except Exception: both exception classes derive from Exception
FindPapersCatches(e) == e \in {"HTTPStatusError", "Exception"}

\* line 239, if not pmids
SkipsFetch(list) == list = << >>

\* lines 236-240: the call of search_pubmed and the test of its result
find_papers_search ==
    /\ pc = "search"
    /\ \E status \in SearchStatuses :
          /\ search_status' = status
          /\ IF SearchRaises(status) # "none"
             THEN /\ exc' = SearchRaises(status)
                  /\ log' = log \cup {<<"search", "error">>}
                  /\ pc' = "except"
                  /\ UNCHANGED << pmids, find_out >>
             ELSE /\ \E list \in (IF status = "ok" THEN PmidLists ELSE {<< >>}) :
                        /\ pmids' = list
                        /\ IF SkipsFetch(list)
                           THEN find_out' = Some(<< >>) /\ pc' = "write"
                           ELSE find_out' = find_out /\ pc' = "fetch"
                  /\ log' = log \cup (IF status = "ok" THEN {<<"search", "info">>}
                                      ELSE {<<"search", "warning">>})
                  /\ UNCHANGED exc
    /\ UNCHANGED << entry, i, all_xml_data, posts, responses, fetch_ret, fetch_exc,
                    write_status, exit_code >>
    /\ UNCHANGED pureVars

\* lines 243-247: the test of the fetched text and the call of the parser
find_papers_parse ==
    /\ pc = "after_fetch"
    /\ LET xml == fetch_ret[1]
           out == parse_and_filter_papers(xml)
       IN  IF xml = << >>
           THEN find_out' = Some(<< >>) /\ pc' = "write" /\ UNCHANGED << exc, log >>
           ELSE IF out.exc = "none"
           THEN /\ find_out' = Some(out.results)
                /\ pc' = "write"
                /\ log' = log \cup {<<"parse", out.log>>}
                /\ UNCHANGED exc
           ELSE /\ exc' = out.exc
                /\ pc' = "except"
                /\ UNCHANGED << find_out, log >>
    /\ UNCHANGED << entry, search_status, write_status, exit_code >>
    /\ UNCHANGED fetchVars /\ UNCHANGED pureVars

\* lines 248-250 of find_papers; an exception it does not catch reaches the
\* handler of main, cli.py lines 83-85
find_papers_except ==
    /\ pc = "except"
    /\ entry = "main"
    /\ IF FindPapersCatches(exc)
       THEN /\ log' = log \cup {<<"find_papers", "critical">>}
            /\ find_out' = Some(<< >>)
            /\ exc' = "none"
            /\ pc' = "write"
            /\ UNCHANGED exit_code
       ELSE /\ log' = log \cup {<<"main", "error">>}
            /\ exit_code' = 1
            /\ pc' = "done"
            /\ UNCHANGED << find_out, exc >>
    /\ UNCHANGED << entry, search_status, write_status >>
    /\ UNCHANGED fetchVars /\ UNCHANGED pureVars

\* _write_to_csv: how it may end for a result list
WriteStatuses(results) == IF results = << >> THEN {"nothing"} ELSE {"ok", "OSError"}

\* A plausible slip: the handler of main logs the error but exits normally.
ExitCodeAlwaysZero(status) == 0

\* cli.py lines 80-85: the exit code for the way _write_to_csv ended
ExitCode(status) == IF status = "OSError" THEN 1 ELSE 0

\* cli.py line 82 to the end of main
main_write ==
    /\ pc = "write"
    /\ \E status \in WriteStatuses(find_out[1]) :
          /\ write_status' = status
          /\ log' = log \cup {<<"main", IF status = "OSError" THEN "error" ELSE "info">>}
          /\ exit_code' = ExitCode(status)
    /\ pc' = "done"
    /\ UNCHANGED << entry, search_status, find_out, exc >>
    /\ UNCHANGED fetchVars /\ UNCHANGED pureVars

(***************************************************************************)
(* A run of the program, or a direct call of fetch_paper_details.          *)
(***************************************************************************)
Init ==
    /\ \/ entry = "main" /\ pc = "search" /\ pmids = << >>
       \/ entry = "fetch_paper_details" /\ pc = "fetch" /\ pmids \in PmidLists
    /\ i = 0
    /\ all_xml_data = << >>
    /\ posts = << >>
    /\ responses = << >>
    /\ search_status = "none"
    /\ fetch_ret = None
    /\ fetch_exc = "none"
    /\ exc = "none"
    /\ find_out = None
    /\ write_status = "none"
    /\ log = {}
    /\ exit_code = -1
    /\ xml_data = << >>
    /\ parse_out = NoOutcome
    /\ affiliation = << >>
    /\ is_company = None

Next ==
    \/ find_papers_search
    \/ fetch_begin
    \/ fetch_post
    \/ fetch_return
    \/ find_papers_parse
    \/ find_papers_except
    \/ main_write

Spec == Init /\ [][Next]_vars

(***************************************************************************)
(* Properties of fetch_paper_details, find_papers and main (under Spec).   *)
(***************************************************************************)
RECURSIVE ConcatBodies(_)
ConcatBodies(rs) ==
    IF rs = << >> THEN << >> ELSE rs[1].body \o ConcatBodies(Tail(rs))

\* the k-th consecutive slice of at most 200 identifiers
KthSlice(list, k) ==
    [j \in 1..Min(200, Len(list) - 200 * (k - 1)) |-> list[200 * (k - 1) + j]]

HttpFailedAt(k) == responses[k].status = "http_error"
FetchHttpFailed == \E k \in 1..Len(responses) : HttpFailedAt(k)
HttpFailed == search_status = "http_error" \/ FetchHttpFailed

\* C1: when fetch_paper_details returns for a list of n identifiers, it has
\* issued exactly ceil(n/200) POST requests (none for n = 0, returning the
\* empty text), the k-th carrying the k-th consecutive slice of at most 200
\* identifiers in their original order, and it returns the response bodies
\* concatenated in request order.
C1_Batching ==
    fetch_ret # None =>
        /\ Len(posts) = (Len(pmids) + 199) \div 200
        /\ Len(responses) = Len(posts)
        /\ \A k \in 1..Len(posts) : posts[k] = KthSlice(pmids, k)
        /\ fetch_ret[1] = ConcatBodies(responses)
        /\ (pmids = << >> => fetch_ret[1] = << >>)

\* C1 witness: 450 identifiers fetched in 3 requests of 200, 200 and 50, with
\* two different non-empty bodies among the responses.
C1_Witness ==
    /\ fetch_ret # None
    /\ Len(pmids) = 450
    /\ Len(posts) = 3
    /\ Len(posts[1]) = 200 /\ Len(posts[2]) = 200 /\ Len(posts[3]) = 50
    /\ responses[1].body # << >>
    /\ responses[2].body # << >>
    /\ responses[1].body # responses[2].body

\* C2: when the request for chunk k fails with a non-success HTTP status, the
\* error is raised at once: the failed request is the last one issued (no
\* later chunk is requested), chunk k was requested once (no retry), and the
\* text accumulated from the chunks before k is not returned.
C2_FailFast ==
    \A k \in 1..Len(responses) :
        HttpFailedAt(k) =>
            /\ k = Len(responses)
            /\ Len(posts) = k
            /\ \A j \in 1..k : posts[j] = KthSlice(pmids, j)
            /\ fetch_exc = "HTTPStatusError"
            /\ fetch_ret = None
            /\ pc \notin {"fetch", "post", "after_fetch"}

\* C2 witness: the third chunk fails after two chunks delivered text.
C2_Witness ==
    /\ Len(responses) = 3
    /\ HttpFailedAt(3)
    /\ all_xml_data # << >>
    /\ fetch_exc = "HTTPStatusError"

\* C3 as stated: a non-success HTTP status of either endpoint reaches the
\* command-line entry point as a failure and is never turned into a normal
\* result.
C3_Original ==
    (entry = "main" /\ pc = "done" /\ HttpFailed) =>
        (exit_code # 0 /\ find_out = None)

\* C3 as amended: a non-success HTTP status of either endpoint is raised out
\* of the endpoint function and aborts the remaining stages (no further
\* request, no parse), but find_papers catches it, logs it as critical and
\* returns the empty list, so that the command-line entry point ends as for a
\* run without matches, with exit code 0.
C3_Swallowed ==
    (entry = "main" /\ HttpFailed) =>
        /\ pc \in {"except", "write", "done"}
        /\ (pc = "except" => exc = "HTTPStatusError")
        /\ (search_status = "http_error" => posts = << >>)
        /\ \A k \in 1..Len(responses) : HttpFailedAt(k) => k = Len(responses)
        /\ \A r \in log : r[1] # "parse"
        /\ fetch_ret = None
        /\ (pc \in {"write", "done"} =>
               /\ find_out = Some(<< >>)
               /\ <<"find_papers", "critical">> \in log)
        /\ (pc = "done" => exit_code = 0 /\ write_status = "nothing")

\* C3 witness: a run that ended after the fetch endpoint answered the second
\* request with a non-success status.
C3_Witness ==
    /\ entry = "main"
    /\ pc = "done"
    /\ Len(responses) = 2
    /\ HttpFailedAt(2)
    /\ exit_code = 0

SearchFailed == search_status \in {"http_error", "error"}

\* C4: find_papers never raises: an exception of the search, fetch or parse
\* stage is logged and makes it return the empty list; when the search
\* returns no identifiers no fetch request is made; and the command-line
\* entry point exits with code 0, except that it exits with code 1 when
\* writing the output raises.
C4_NeverRaises ==
    entry = "main" =>
        /\ (pc \in {"write", "done"} => find_out # None /\ exc = "none")
        /\ ((pc \in {"write", "done"} /\ (SearchFailed \/ fetch_exc # "none")) =>
               /\ find_out = Some(<< >>)
               /\ <<"find_papers", "critical">> \in log)
        /\ ((search_status \in {"ok", "no_idlist"} /\ pmids = << >>) =>
               posts = << >>)
        /\ (pc = "done" =>
               exit_code = IF write_status = "OSError" THEN 1 ELSE 0)
        /\ (pc # "done" => exit_code = -1)

\* C4 witness: a run whose output could not be written, after a fetch and a
\* parse that produced results.
C4_Witness ==
    /\ entry = "main"
    /\ pc = "done"
    /\ write_status = "OSError"
    /\ exit_code = 1
    /\ find_out # None /\ find_out # Some(<< >>)

\* C4 witness of the other case: a transport failure of a fetch request ended
\* as a normal run without matches.
C4_SwallowReached ==
    /\ entry = "main"
    /\ pc = "done"
    /\ fetch_exc = "Exception"
    /\ exit_code = 0

(***************************************************************************)
(* Direct calls of the pure functions: the arguments they are tried on.    *)
(***************************************************************************)
MaxAuthors == 3
MaxDocLen == 3

\* all sequences over S of length at most n
SeqUpTo(S, n) == UNION {[1..m -> S] : m \in 0..n}

AffAlphabet == {"a", "A", "g", "s", ".", " "}

SampleAffiliations ==
    { <<"P", "h", "a", "r", "m", "a", "C", "o", "r", "p", " ", "I", "n", "c", ".">>,
      <<"U", "n", "i", "v", "e", "r", "s", "i", "t", "y", " ", "o", "f", " ", "I", "m", "a", "g", "i", "n", "g">>,
      <<"M", "I", "T">>,
      <<"B", "i", "o", "t", "e", "c", "h", " ", "G", "m", "b", "H">>,
      <<"I", "N", "C">>,
      <<"N", "e", "s", "t", "l", "e", " ", "S", ".", "A", ".">>,
      <<"D", "e", "p", "t", ".", " ", "o", "f", " ", "B", "i", "o", "l", "o", "g", "y">> }

AffiliationInputs == SeqUpTo(AffAlphabet, MaxAffLen) \cup SampleAffiliations

\* company-affiliated, display name J D
AuthorJD ==
    [fore |-> Some(<<"J">>), last |-> Some(<<"D">>),
     affs |-> << <<"B", "i", "o", " ", "A", "G">> >>,
     corr |-> None]

\* company-affiliated, no name nodes, flagged corresponding, email in parentheses
AuthorNoName ==
    [fore |-> None, last |-> None,
     affs |-> << <<"X", " ", "I", "n", "c", " ", "(", "a", "@", "x", ".", "c", ")", ".">> >>,
     corr |-> Some(<<"Y">>)]

\* company-affiliated, whitespace-only name, affiliation padded with spaces
AuthorBlankName ==
    [fore |-> Some(<<" ">>), last |-> None,
     affs |-> << <<" ", "B", "i", "o", " ", "A", "G", " ">> >>,
     corr |-> None]

\* academic, flagged corresponding, the email word has punctuation on both sides
AuthorK ==
    [fore |-> Some(<<"K">>), last |-> None,
     affs |-> << <<"M", "I", "T", " ", ".", "b", "@", "m", ".", "e", ";", ",", " ", "c">> >>,
     corr |-> Some(<<"Y">>)]

\* company-affiliated, corresponding by text, two email words
AuthorLD ==
    [fore |-> Some(<<"L">>), last |-> Some(<<"D">>),
     affs |-> << <<"C", "o", "r", "r", "e", "s", "p", "o", "n", "d", "i", "n", "g", " ", "d", "@", "a", "g", ".", "o", " ", "e", "@", "a", "g", ".", "o", ",">> >>,
     corr |-> None]

\* no Affiliation node, flagged corresponding
AuthorM ==
    [fore |-> Some(<<"M">>), last |-> None,
     affs |-> << >>,
     corr |-> Some(<<"Y">>)]

\* academic, corresponding by text, no email
AuthorN ==
    [fore |-> Some(<<"N">>), last |-> None,
     affs |-> << <<"C", "o", "r", "r", "e", "s", "p", "o", "n", "d", "i", "n", "g", " ", "M", "I", "T">> >>,
     corr |-> Some(<<"N">>)]

\* two Affiliation nodes, the first academic
AuthorP ==
    [fore |-> Some(<<"P">>), last |-> None,
     affs |-> << <<"M", "I", "T">>, <<"B", "i", "o", " ", "A", "G">> >>,
     corr |-> None]

\* company-affiliated, an email but not corresponding
AuthorQ ==
    [fore |-> None, last |-> Some(<<"Q">>),
     affs |-> << <<"Q", " ", "L", "t", "d", " ", "q", "@", "q", ".", "q">> >>,
     corr |-> None]

AuthorPool ==
    { AuthorJD,
      AuthorNoName,
      AuthorBlankName,
      AuthorK,
      AuthorLD,
      AuthorM,
      AuthorN,
      AuthorP,
      AuthorQ }

AuthorLists == SeqUpTo(AuthorPool, MaxAuthors)

DateNode(y, m, d) == [Year |-> y, Month |-> m, Day |-> d]

\* no PubDate node; year and month only; day only; a PubDate without any of
\* the three; a Year element without text; two PubDate nodes
DatePool ==
    { << >>,
      << DateNode(Some(<<"2", "3">>), Some(<<"J", "a">>), None) >>,
      << DateNode(None, None, Some(<<"5">>)) >>,
      << DateNode(None, None, None) >>,
      << DateNode(Some(<< >>), Some(<<"M">>), Some(<<"1">>)) >>,
      << DateNode(Some(<<"2", "4">>), Some(<<"F", "e">>), Some(<<"9">>)),
         DateNode(Some(<<"2", "3">>), None, None) >> }

ArticleInputs ==
    { [pmid |-> Some(<<"3">>), title |-> Some(<<"V">>),
       authors |-> Some(list), dates |-> dates] :
          list \in AuthorLists,
          dates \in {<< >>, << DateNode(Some(<<"2", "3">>), Some(<<"J", "a">>), None) >>} }
    \cup
    { [pmid |-> id, title |-> title, authors |-> list, dates |-> dates] :
          id \in {None, Some(<< >>), Some(<<"3">>)},
          title \in {None, Some(<<" ">>), Some(<<" ", "V", " ">>)},
          list \in {None} \cup {Some(l) : l \in SeqUpTo(AuthorPool, 1)},
          dates \in DatePool }

StructItems ==
    { Item("PROLOG"), Item("DOCTYPE"), Item("WS"), Item("TEXT"), Item("OPEN"),
      Item("CLOSE"), ArticleItem(CompanyArticle), ArticleItem(AcademicArticle) }

\* texts that exercise the document structure, and record sets that put one
\* article of ArticleInputs between an academic and a company article
ParseInputs ==
    SeqUpTo(StructItems, MaxDocLen)
    \cup { << Item("PROLOG"), Item("OPEN"), ArticleItem(AcademicArticle),
              ArticleItem(a), ArticleItem(CompanyArticle), Item("CLOSE") >> :
              a \in ArticleInputs }

InitPure ==
    /\ pmids = << >>
    /\ i = 0
    /\ all_xml_data = << >>
    /\ posts = << >>
    /\ responses = << >>
    /\ search_status = "none"
    /\ fetch_ret = None
    /\ fetch_exc = "none"
    /\ exc = "none"
    /\ find_out = None
    /\ write_status = "none"
    /\ log = {}
    /\ exit_code = -1

(***************************************************************************)
(* A direct call of parse_and_filter_papers.                               *)
(***************************************************************************)
InitParse ==
    /\ entry = "parse_and_filter_papers"
    /\ pc = "parse"
    /\ xml_data \in ParseInputs
    /\ parse_out = NoOutcome
    /\ affiliation = << >>
    /\ is_company = None
    /\ InitPure

call_parse ==
    /\ pc = "parse"
    /\ parse_out' = parse_and_filter_papers(xml_data)
    /\ pc' = "done"
    /\ UNCHANGED << entry, exc, log, xml_data, affiliation, is_company >>
    /\ UNCHANGED fetchVars /\ UNCHANGED mainVars

NextParse == call_parse

SpecParse == InitParse /\ [][NextParse]_vars

(***************************************************************************)
(* A direct call of _is_company_affiliation.                               *)
(***************************************************************************)
InitClassify ==
    /\ entry = "_is_company_affiliation"
    /\ pc = "classify"
    /\ affiliation \in AffiliationInputs
    /\ is_company = None
    /\ xml_data = << >>
    /\ parse_out = NoOutcome
    /\ InitPure

call_classify ==
    /\ pc = "classify"
    /\ is_company' = Some(_is_company_affiliation(affiliation))
    /\ pc' = "done"
    /\ UNCHANGED << entry, exc, log, xml_data, parse_out, affiliation >>
    /\ UNCHANGED fetchVars /\ UNCHANGED mainVars

NextClassify == call_classify

SpecClassify == InitClassify /\ [][NextClassify]_vars

(***************************************************************************)
(* Properties of _is_company_affiliation (under SpecClassify).             *)
(***************************************************************************)
\* the keyword set as the specification lists it
KeywordSet ==
    { <<"i","n","c">>, <<"l","t","d">>, <<"l","l","c">>, <<"c","o","r","p">>,
      <<"c","o","r","p","o","r","a","t","i","o","n">>,
      <<"p","h","a","r","m","a","c","e","u","t","i","c","a","l","s">>,
      <<"t","h","e","r","a","p","e","u","t","i","c","s">>,
      <<"b","i","o","t","e","c","h">>,
      <<"b","i","o","s","c","i","e","n","c","e","s">>,
      <<"d","i","a","g","n","o","s","t","i","c","s">>,
      <<"l","a","b","s">>,
      <<"l","a","b","o","r","a","t","o","r","i","e","s">>,
      <<"g","m","b","h">>, <<"a","g">>, <<"s",".","a",".">> }

\* w occurs in t at offset k, letters compared without regard to case
OccursAt(t, w, k) ==
    /\ k + Len(w) <= Len(t)
    /\ \A j \in 1..Len(w) : LowerChar(t[k + j]) = w[j]

\* C6: _is_company_affiliation returns true exactly when the lowercased
\* string contains a keyword of the fixed set as a substring, whatever
\* surrounds the occurrence; the empty string is classified academic.
C6_KeywordSubstring ==
    is_company # None =>
        /\ is_company[1] =
               (\E w \in KeywordSet : \E k \in 0..Len(affiliation) :
                    OccursAt(affiliation, w, k))
        /\ (affiliation = << >> => is_company[1] = FALSE)

\* C6 witness: "University of Imaging" is classified company-affiliated
\* because "ag" occurs inside a word.
C6_Witness ==
    /\ is_company = Some(TRUE)
    /\ affiliation = <<"U","n","i","v","e","r","s","i","t","y"," ","o","f"," ",
                       "I","m","a","g","i","n","g">>

(***************************************************************************)
(* Properties of parse_and_filter_papers (under SpecParse).                *)
(***************************************************************************)
Returned == pc = "done" /\ entry = "parse_and_filter_papers"

\* the PubmedArticle elements of the text, in document order
ArticlesOf(text) ==
    LET IsArticle(t) == t.kind = "ARTICLE"
        found == SelectSeq(text, IsArticle)
    IN  [k \in 1..Len(found) |-> found[k].art]

\* the trimmed text of the author's first Affiliation node, "" without one
TextOf(author) == IF author.affs = << >> THEN << >> ELSE strip(author.affs[1])

IsCompanyAuthor(author) ==
    author.affs # << >> /\ _is_company_affiliation(strip(author.affs[1]))

NameOf(author) ==
    strip((IF author.fore = None THEN << >> ELSE author.fore[1]) \o <<" ">>
              \o (IF author.last = None THEN << >> ELSE author.last[1]))

\* the article yields a result: its three nodes are present and one of its
\* company-affiliated authors has a display name
Qualifies(a) ==
    /\ a.pmid # None /\ a.title # None /\ a.authors # None
    /\ \E j \in 1..Len(a.authors[1]) :
           IsCompanyAuthor(a.authors[1][j]) /\ NameOf(a.authors[1][j]) # << >>

\* the articles the results come from, result k from SourceArticles[k]
SourceArticles == SelectSeq(ArticlesOf(xml_data), Qualifies)

Results == parse_out.results

Aligned == Len(Results) <= Len(SourceArticles)

\* the (id, title) pair a result carries for an article
Identity(a) ==
    << IF a.pmid = None \/ a.pmid = Some(<< >>) THEN NA ELSE a.pmid[1],
       IF a.title = None \/ strip(a.title[1]) = << >> THEN NoTitle
       ELSE strip(a.title[1]) >>

AllAcademic(a) ==
    a.authors = None
    \/ \A j \in 1..Len(a.authors[1]) : ~IsCompanyAuthor(a.authors[1][j])

\* C5: every returned PaperResult has a non-empty non_academic_authors list
\* of non-empty strings, and an article whose authors are all classified
\* academic, or have no affiliation, does not appear among the results.
C5_NonAcademicNonEmpty ==
    Returned =>
        /\ \A k \in 1..Len(Results) :
               /\ Results[k].non_academic_authors # << >>
               /\ \A n \in 1..Len(Results[k].non_academic_authors) :
                      Results[k].non_academic_authors[n] # << >>
        /\ \A n \in 1..Len(ArticlesOf(xml_data)) :
               AllAcademic(ArticlesOf(xml_data)[n]) =>
                   \A k \in 1..Len(Results) :
                       << Results[k].pubmed_id, Results[k].title >>
                           # Identity(ArticlesOf(xml_data)[n])

\* C5 witness: the middle article has a company-affiliated author without a
\* display name and one with a name; the first article is academic; three
\* articles were parsed and two results returned.
C5_Witness ==
    /\ Returned
    /\ Len(ArticlesOf(xml_data)) = 3
    /\ ArticlesOf(xml_data)[2].authors = Some(<<AuthorNoName, AuthorJD>>)
    /\ Len(Results) = 2
    /\ Results[1].non_academic_authors = << <<"J", " ", "D">> >>

CompanyTexts(a) ==
    LET all == [j \in 1..Len(a.authors[1]) |-> a.authors[1][j]]
        sel == SelectSeq(all, IsCompanyAuthor)
    IN  [j \in 1..Len(sel) |-> TextOf(sel[j])]

FirstIndex(q, v) == CHOOSE j \in 1..Len(q) : q[j] = v /\ \A h \in 1..(j - 1) : q[h] # v

\* C8: company_affiliations of every returned PaperResult has no duplicates,
\* holds exactly the distinct affiliation texts of the article's authors
\* classified company-affiliated (those without a display name included),
\* and lists them in the order of their first occurrence.
C8_DistinctFirstSeen ==
    Returned =>
        /\ Aligned
        /\ \A k \in 1..Len(Results) :
               LET affs == Results[k].company_affiliations
                   texts == CompanyTexts(SourceArticles[k])
               IN  /\ \A p, q \in 1..Len(affs) : p # q => affs[p] # affs[q]
                   /\ {affs[p] : p \in 1..Len(affs)}
                          = {texts[j] : j \in 1..Len(texts)}
                   /\ \A p, q \in 1..Len(affs) :
                          p < q => FirstIndex(texts, affs[p]) < FirstIndex(texts, affs[q])

\* C8 witness: a nameless company author first, then a named one with another
\* affiliation, then one repeating the first affiliation.
C8_Witness ==
    /\ Returned
    /\ Len(Results) = 2
    /\ SourceArticles[1].authors = Some(<<AuthorBlankName, AuthorLD, AuthorJD>>)
    /\ Len(Results[1].company_affiliations) = 2
    /\ Results[1].company_affiliations[1] = <<"B", "i", "o", " ", "A", "G">>

Slot(node) == IF node = None THEN NA ELSE node[1]

ThreeSlots(y, m, d) == Slot(y) \o <<"-">> \o Slot(m) \o <<"-">> \o Slot(d)

\* C9 as stated: publication_date is "{year}-{month}-{day}", each component
\* the text of that element of the first date node or "N/A" when absent, and
\* "N/A-N/A-N/A" when the article has no date node.
C9_Original ==
    Returned =>
        /\ Aligned
        /\ \A k \in 1..Len(Results) :
               LET dates == SourceArticles[k].dates
               IN  Results[k].publication_date =
                       IF dates = << >> THEN ThreeSlots(None, None, None)
                       ELSE ThreeSlots(dates[1].Year, dates[1].Month, dates[1].Day)

\* C9 as amended: when the article has a date node, publication_date is
\* "{year}-{month}-{day}", each component the text of that element of the
\* first date node or "N/A" when absent; when the article has no date node,
\* publication_date is the single literal "N/A".
C9_DateForm ==
    Returned =>
        /\ Aligned
        /\ \A k \in 1..Len(Results) :
               LET dates == SourceArticles[k].dates
               IN  Results[k].publication_date =
                       IF dates = << >> THEN <<"N", "/", "A">>
                       ELSE ThreeSlots(dates[1].Year, dates[1].Month, dates[1].Day)

\* C9 witness: a result for an article with year and month but no day, as in
\* the test, "23-Ja-N/A".
C9_Witness ==
    /\ Returned
    /\ Len(Results) = 2
    /\ SourceArticles[1].dates = << DateNode(Some(<<"2", "3">>), Some(<<"J", "a">>), None) >>
    /\ Results[1].publication_date = <<"2", "3", "-", "J", "a", "-", "N", "/", "A">>

\* C9 witness of the other case: a result for an article without a date node.
C9_NoDateReached ==
    /\ Returned
    /\ Len(Results) = 2
    /\ SourceArticles[1].dates = << >>
    /\ SourceArticles[1].pmid = Some(<<"3">>)
    /\ Results[1].publication_date = <<"N", "/", "A">>

IsSep(c) == IsSpace(c) \/ c \in {"(", ")"}

\* t[a..b] is a word of t: a maximal run without whitespace or parentheses
IsWord(t, a, b) ==
    /\ 1 <= a /\ a <= b /\ b <= Len(t)
    /\ \A j \in a..b : ~IsSep(t[j])
    /\ (a = 1 \/ IsSep(t[a - 1]))
    /\ (b = Len(t) \/ IsSep(t[b + 1]))

HasAt(t, a, b) == \E j \in a..b : t[j] = "@"

\* t[a..b] is the last word of t that contains "@"
IsLastEmailWord(t, a, b) ==
    /\ IsWord(t, a, b)
    /\ HasAt(t, a, b)
    /\ \A j \in (b + 1)..Len(t) : t[j] # "@"

\* e is w without its trailing '.', ';' and ',' characters
TrailingStripped(w, e) ==
    \E b \in 0..Len(w) :
        /\ e = SubSeq(w, 1, b)
        /\ \A j \in (b + 1)..Len(w) : w[j] \in {".", ";", ","}
        /\ (b = 0 \/ w[b] \notin {".", ";", ","})

\* e is w without its leading and trailing '.', ';' and ',' characters
BothEndsStripped(w, e) ==
    \E a \in 1..(Len(w) + 1) : \E b \in 0..Len(w) :
        /\ e = SubSeq(w, a, b)
        /\ \A j \in 1..(a - 1) : w[j] \in {".", ";", ","}
        /\ \A j \in (b + 1)..Len(w) : w[j] \in {".", ";", ","}
        /\ (a <= b => w[a] \notin {".", ";", ","} /\ w[b] \notin {".", ";", ","})
        /\ (a > b => \A j \in 1..Len(w) : w[j] \in {".", ";", ","})

\* the authors the email may come from: corresponding by flag or by text,
\* with an "@" in the affiliation text
EmailCandidates(list) ==
    {j \in 1..Len(list) :
        /\ list[j].corr = Some(<<"Y">>) \/ Contains(TextOf(list[j]), Corresponding)
        /\ Contains(TextOf(list[j]), <<"@">>)}

EmailIs(list, email, Stripped(_, _)) ==
    IF EmailCandidates(list) = {} THEN email = None
    ELSE LET first == CHOOSE j \in EmailCandidates(list) :
                          \A h \in EmailCandidates(list) : j <= h
             text == TextOf(list[first])
         IN  /\ email # None
             /\ \E a, b \in 1..Len(text) :
                    /\ IsLastEmailWord(text, a, b)
                    /\ Stripped(SubSeq(text, a, b), email[1])

\* C10 as stated: the email comes from the first author, company-affiliated
\* or not, that is corresponding by flag or by text and has "@" in the
\* affiliation text; it is the last word containing "@" with only trailing
\* '.', ';', ',' stripped; without such an author it is unset.
C10_Original ==
    Returned =>
        /\ Aligned
        /\ \A k \in 1..Len(Results) :
               EmailIs(SourceArticles[k].authors[1],
                       Results[k].corresponding_author_email, TrailingStripped)

\* C10 as amended: as stated, except that '.', ';', ',' characters are
\* stripped from both ends of the word, leading as well as trailing.
C10_Email ==
    Returned =>
        /\ Aligned
        /\ \A k \in 1..Len(Results) :
               EmailIs(SourceArticles[k].authors[1],
                       Results[k].corresponding_author_email, BothEndsStripped)

\* C10 witness: the first candidate is an academic author whose email word is
\* ".b@m.e;,"; a later candidate has other emails; the result carries "b@m.e".
C10_Witness ==
    /\ Returned
    /\ Len(Results) = 2
    /\ SourceArticles[1].authors = Some(<<AuthorQ, AuthorK, AuthorLD>>)
    /\ Results[1].corresponding_author_email = Some(<<"b", "@", "m", ".", "e">>)

====
